---------------------------- MODULE Spec2Model ----------------------------
(***************************************************************************)
(* State machine of the Ghostwriter-AI App component (src/App.tsx): the    *)
(* revision sequence, the suggestion batch and its selection, the manual   *)
(* undo/redo history, the debounced background suggestion fetch and the    *)
(* user-initiated generator calls (draft, apply-suggestions merge).        *)
(*                                                                         *)
(* Every event handler, promise continuation and timer callback is one     *)
(* action.  The two effects of App (history reset, debounce timer) run     *)
(* after the render that follows a state change and before the next event  *)
(* is handled, so they are part of the action whose state change triggers  *)
(* them.  The generator (src/unnamed/part_000) is an external service: its *)
(* answers are inputs drawn from small sets.                               *)
(***************************************************************************)
EXTENDS Integers, Sequences, FiniteSets, TLC

VARIABLES
    revisions,              \* App.tsx:10  Revision[]
    suggestions,            \* App.tsx:11  Suggestion[]
    selectedSuggestions,    \* App.tsx:12  Set<string>
    isGeneratingDraft,      \* App.tsx:13  busy flag
    isFetchingSuggestions,  \* App.tsx:14
    error,                  \* App.tsx:16  string | null
    historyPast,            \* App.tsx:19  string[]
    historyFuture,          \* App.tsx:20  string[]
    lastSaveTimeRef,        \* App.tsx:21
    prevRevisionsLengthRef, \* App.tsx:22
    now,                    \* the wall clock read by Date.now()
    timer,                  \* deadline of the pending debounce timer, or NoTimer
    suggestionCalls,        \* generateSuggestions calls in flight
    userCalls,              \* generateInitialDraft / applySuggestions calls in flight:
                            \*   what the continuation uses (the platform), and as
                            \*   history the suggestion batch at the call's start
    pastStale,              \* history: per historyPast entry, taken from a revision
    futureStale,            \*   that is no longer the current one (same for future)
    editCount,              \* history: the number of manual edits so far
    ticks,                  \* history: the number of clock steps so far
    overlapped,             \* history: two user calls have been in flight together
    lastChangeTime,         \* history: when the current revision last changed
    lastOp                  \* history: the handler that ran last

vars == << revisions, suggestions, selectedSuggestions, isGeneratingDraft,
           isFetchingSuggestions, error, historyPast, historyFuture,
           lastSaveTimeRef, prevRevisionsLengthRef, now, timer,
           suggestionCalls, userCalls, pastStale, futureStale, editCount,
           ticks, overlapped, lastChangeTime, lastOp >>

---------------------------------------------------------------------------
(* Program constants *)

THROTTLE_MS == 1000

DEBOUNCE_MS == 3000

MIN_CONTENT_LENGTH == 50

(* Bounds of the model *)

MaxTicks == 2

MaxEdits == 2

MaxHistory == 2

MaxRevisions == 2

MaxSuggestionCalls == 2

MaxUserCalls == 2

---------------------------------------------------------------------------
(* Values *)

Platform == {"Generic", "LinkedIn", "Facebook", "Reddit", "Twitter"}

PlatformInputs == {"Generic", "Twitter"}

NoError == "null"

DraftErrorMessage == "Failed to generate draft. Please check your API key and try again."

ApplyErrorMessage == "Failed to apply suggestions. Please try again."

NoTimer == -1

NoContent == "<no revision>"

\* Texts the user can leave in the textarea: 49 and 50 characters long.
Short49 == "A short note that is not yet fifty characters lon"

Long50 == "A longer note that is exactly fifty characters lon"

UserTexts == {Short49, Long50}

\* Texts the generator can return: empty, or a document of 60 characters.
Generated60 == "Generated document text that is sixty characters long, it is"

GenTexts == {"", Generated60}

\* What the generator's suggestion endpoint can answer (before ids are added).
Raw1 == [originalText |-> "note", suggestedChange |-> "memo", reason |-> "tone"]

Raw2 == [originalText |-> "long", suggestedChange |-> "brief", reason |-> "concise"]

SuggestionResponses ==
    { [parsed |-> TRUE, data |-> << >>],
      [parsed |-> TRUE, data |-> << Raw1, Raw2 >>],
      [parsed |-> FALSE, data |-> << >>] }

StartTimes == {10000}

ClockSteps == {1000, 3000}

---------------------------------------------------------------------------
(* Helpers *)

RemoveAt(s, i) == SubSeq(s, 1, i - 1) \o SubSeq(s, i + 1, Len(s))

HasCurrentRevision == Len(revisions) > 0

CurrentRevision == revisions[Len(revisions)]

CurrentContent == IF HasCurrentRevision THEN CurrentRevision.content ELSE NoContent

\* A variant of the revision constructor that ignores the platform.
NewRevisionGeneric(t, content, platform) ==
    [id |-> ToString(t), content |-> content, timestamp |-> t, platform |-> "Generic"]

\* App.tsx:41, 87  { id: Date.now().toString(), content, timestamp, platform }
NewRevision(t, content, platform) ==
    [id |-> ToString(t), content |-> content, timestamp |-> t, platform |-> platform]

WithContent(revs, content) ==
    SubSeq(revs, 1, Len(revs) - 1)
        \o << [revs[Len(revs)] EXCEPT !.content = content] >>

SuggestionIds == { suggestions[i].id : i \in 1..Len(suggestions) }

AllStale(flags) == [i \in 1..Len(flags) |-> TRUE]

---------------------------------------------------------------------------
(* Pure parts of the handlers *)

\* A variant of the throttle that also snapshots at exactly THROTTLE_MS.
ShouldSnapshotInclusive(t, lastSave) == t - lastSave >= THROTTLE_MS

\* App.tsx:115  the throttle of history snapshots
ShouldSnapshot(t, lastSave) == t - lastSave > THROTTLE_MS

\* A variant of the reset condition that tests for a non-empty sequence.
RevisionsNonEmpty(newLength, prevLength) == newLength > 0

\* App.tsx:28  the history reset effect fires on a growth of the sequence
RevisionsGrew(newLength, prevLength) == newLength > prevLength

\* A variant of the threshold that also skips content of exactly
\* MIN_CONTENT_LENGTH characters.
BelowThresholdInclusive(content) == Len(content) <= MIN_CONTENT_LENGTH

\* App.tsx:53  fetchSuggestions returns early below the content threshold
BelowThreshold(content) == Len(content) < MIN_CONTENT_LENGTH

\* part_000:101-107  JSON.parse and the ids `${Date.now()}-${index}`, or []
ParseSuggestions(response, t) ==
    IF response.parsed
    THEN [i \in 1..Len(response.data) |->
            [id |-> ToString(t) \o "-" \o ToString(i - 1),
             originalText |-> response.data[i].originalText,
             suggestedChange |-> response.data[i].suggestedChange,
             reason |-> response.data[i].reason]]
    ELSE << >>

\* App.tsx:83  suggestions.filter(s => selectedSuggestions.has(s.id))
SuggestionsToApply(batch, selected) ==
    LET IsSelected(s) == s.id \in selected
    IN  SelectSeq(batch, IsSelected)

\* A variant of the toggle that only ever adds the id.
ToggledAddOnly(selected, id) == selected \cup {id}

\* App.tsx:99-107  the toggled copy of the selection set
Toggled(selected, id) ==
    IF id \in selected THEN selected \ {id} ELSE selected \cup {id}

\* A variant of undo that takes the oldest snapshot instead of the latest.
UndoTakesOldest(content, past, future) ==
    [content |-> past[1],
     past    |-> SubSeq(past, 2, Len(past)),
     future  |-> << content >> \o future]

\* A variant of undo that puts the popped snapshot, not the content it
\* replaces, on the future stack.
UndoPushesSnapshot(content, past, future) ==
    [content |-> past[Len(past)],
     past    |-> SubSeq(past, 1, Len(past) - 1),
     future  |-> << past[Len(past)] >> \o future]

\* App.tsx:128-135  handleUndo on (content, past, future)
UndoResult(content, past, future) ==
    [content |-> past[Len(past)],
     past    |-> SubSeq(past, 1, Len(past) - 1),
     future  |-> << content >> \o future]

\* App.tsx:141-148  handleRedo on (content, past, future)
RedoResult(content, past, future) ==
    [content |-> future[1],
     past    |-> Append(past, content),
     future  |-> SubSeq(future, 2, Len(future))]

---------------------------------------------------------------------------
(* The two effects of App, run after every change of the revisions array *)

\* App.tsx:27-33  reset undo history when the sequence has grown.  The effect
\* runs when revisions.length has changed; when it has not, its condition is
\* false anyway, since the length never exceeds prevRevisionsLengthRef after
\* the effect has run.
HistoryResetEffect(newRevisions, past, future, pStale, fStale, newCurrent) ==
    IF RevisionsGrew(Len(newRevisions), prevRevisionsLengthRef)
    THEN /\ historyPast' = << >>
         /\ historyFuture' = << >>
         /\ pastStale' = << >>
         /\ futureStale' = << >>
         /\ prevRevisionsLengthRef' = Len(newRevisions)
    ELSE /\ historyPast' = past
         /\ historyFuture' = future
         /\ pastStale' = IF newCurrent THEN AllStale(pStale) ELSE pStale
         /\ futureStale' = IF newCurrent THEN AllStale(fStale) ELSE fStale
         /\ UNCHANGED prevRevisionsLengthRef

\* App.tsx:66-74  a new currentRevision object cancels the pending timer
\* and schedules a new one
\* A variant of the effect with an empty dependency list: the timer is
\* set at mount only and a later change schedules nothing.
DebounceEffectMountOnly ==
    /\ timer' = timer
    /\ lastChangeTime' = IF revisions' # revisions THEN now ELSE lastChangeTime

DebounceEffect ==
    /\ timer' = now + DEBOUNCE_MS
    /\ lastChangeTime' = IF revisions' # revisions THEN now ELSE lastChangeTime

---------------------------------------------------------------------------
Init ==
    /\ revisions = << >>
    /\ suggestions = << >>
    /\ selectedSuggestions = {}
    /\ isGeneratingDraft = FALSE
    /\ isFetchingSuggestions = FALSE
    /\ error = NoError
    /\ historyPast = << >>
    /\ historyFuture = << >>
    /\ lastSaveTimeRef = 0
    /\ prevRevisionsLengthRef = 0
    /\ now \in StartTimes
    /\ timer = now + DEBOUNCE_MS      \* the debounce effect runs on mount
    /\ suggestionCalls = << >>
    /\ userCalls = << >>
    /\ pastStale = << >>
    /\ futureStale = << >>
    /\ editCount = 0
    /\ ticks = 0
    /\ overlapped = FALSE
    /\ lastChangeTime = now
    /\ lastOp = [op |-> "mount", ref |-> NoContent]

---------------------------------------------------------------------------
(* Draft generation: App.tsx:35-50 *)

\* App.tsx:36-40 up to the await; the InitialScreen that calls it is only
\* rendered while the sequence is empty (App.tsx:167)
GenerateDraftStart(platform) ==
    /\ Len(revisions) = 0
    /\ Len(userCalls) < MaxUserCalls
    /\ isGeneratingDraft' = TRUE
    /\ error' = NoError
    /\ userCalls' = Append(userCalls,
            [kind |-> "draft", platform |-> platform,
             batchAtStart |-> suggestions])
    /\ lastOp' = [op |-> "generateDraftStart", ref |-> NoContent]
    /\ overlapped' = (overlapped \/ Len(userCalls) > 0)
    /\ UNCHANGED << revisions, suggestions, selectedSuggestions,
                    isFetchingSuggestions, historyPast, historyFuture,
                    lastSaveTimeRef, prevRevisionsLengthRef, now, timer,
                    suggestionCalls, pastStale, futureStale, editCount, ticks,
                    lastChangeTime >>

\* App.tsx:40-43, 47-49 and the effects: the draft call returned `text`
GenerateDraftSucceed(i, text) ==
    /\ userCalls[i].kind = "draft"
    /\ LET newRevisions == << NewRevision(now, text, userCalls[i].platform) >>
       IN  /\ revisions' = newRevisions
           /\ HistoryResetEffect(newRevisions, historyPast, historyFuture,
                                 pastStale, futureStale, TRUE)
    /\ DebounceEffect
    /\ suggestions' = << >>
    /\ selectedSuggestions' = {}
    /\ isGeneratingDraft' = FALSE
    /\ userCalls' = RemoveAt(userCalls, i)
    /\ lastOp' = [op |-> "generateDraftSucceed",
                  ref |-> IF Len(revisions) = 0 THEN "created" ELSE "replaced"]
    /\ UNCHANGED << isFetchingSuggestions, error, lastSaveTimeRef, now,
                    suggestionCalls, editCount, ticks, overlapped >>

\* App.tsx:44-49  the draft call threw
GenerateDraftFail(i) ==
    /\ userCalls[i].kind = "draft"
    /\ error' = DraftErrorMessage
    /\ isGeneratingDraft' = FALSE
    /\ userCalls' = RemoveAt(userCalls, i)
    /\ lastOp' = [op |-> "generateDraftFail", ref |-> NoContent]
    /\ UNCHANGED << revisions, suggestions, selectedSuggestions,
                    isFetchingSuggestions, historyPast, historyFuture,
                    lastSaveTimeRef, prevRevisionsLengthRef, now, timer,
                    suggestionCalls, pastStale, futureStale, editCount, ticks,
                    overlapped, lastChangeTime >>

---------------------------------------------------------------------------
(* Background suggestion fetch: App.tsx:52-74 *)

\* A variant of the timer whose callback runs without waiting for the
\* deadline (setTimeout given the call instead of the callback).
DebounceTimerFireImmediately ==
    /\ timer # NoTimer
    /\ timer' = NoTimer
    /\ IF HasCurrentRevision /\ ~BelowThreshold(CurrentRevision.content)
       THEN /\ Len(suggestionCalls) < MaxSuggestionCalls
            /\ isFetchingSuggestions' = TRUE
            /\ suggestionCalls' = Append(suggestionCalls, CurrentRevision)
            /\ lastOp' = [op |-> "fetchSuggestionsStart", ref |-> NoContent]
       ELSE /\ UNCHANGED << isFetchingSuggestions, suggestionCalls >>
            /\ lastOp' = [op |-> "fetchSuggestionsSkip", ref |-> NoContent]
    /\ UNCHANGED << revisions, suggestions, selectedSuggestions,
                    isGeneratingDraft, error, historyPast, historyFuture,
                    lastSaveTimeRef, prevRevisionsLengthRef, now, userCalls,
                    pastStale, futureStale, editCount, ticks,
                    overlapped, lastChangeTime >>

\* App.tsx:67-71 and 52-56 up to the await: the debounce timer fires.  The
\* revision its callback closed over is the current one, since every change
\* of currentRevision cancels the timer.
DebounceTimerFire ==
    /\ timer # NoTimer
    /\ now >= timer
    /\ timer' = NoTimer
    /\ IF HasCurrentRevision /\ ~BelowThreshold(CurrentRevision.content)
       THEN /\ Len(suggestionCalls) < MaxSuggestionCalls
            /\ isFetchingSuggestions' = TRUE
            /\ suggestionCalls' = Append(suggestionCalls, CurrentRevision)
            /\ lastOp' = [op |-> "fetchSuggestionsStart", ref |-> NoContent]
       ELSE /\ UNCHANGED << isFetchingSuggestions, suggestionCalls >>
            /\ lastOp' = [op |-> "fetchSuggestionsSkip", ref |-> NoContent]
    /\ UNCHANGED << revisions, suggestions, selectedSuggestions,
                    isGeneratingDraft, error, historyPast, historyFuture,
                    lastSaveTimeRef, prevRevisionsLengthRef, now, userCalls,
                    pastStale, futureStale, editCount, ticks,
                    overlapped, lastChangeTime >>

\* A variant of the completion that shows the user an error when the
\* generator failed or its answer did not parse.
FetchSuggestionsCompleteSurfacing(i, response) ==
    /\ suggestions' = ParseSuggestions(response, now)
    /\ isFetchingSuggestions' = FALSE
    /\ error' = IF response.parsed THEN error ELSE "Failed to fetch suggestions."
    /\ suggestionCalls' = RemoveAt(suggestionCalls, i)
    /\ lastOp' = [op |-> "fetchSuggestionsComplete",
                  ref |-> suggestionCalls[i].content]
    /\ UNCHANGED << revisions, selectedSuggestions, isGeneratingDraft,
                    historyPast, historyFuture, lastSaveTimeRef,
                    prevRevisionsLengthRef, now, timer, userCalls,
                    pastStale, futureStale, editCount, ticks,
                    overlapped, lastChangeTime >>

\* App.tsx:56-57, 61-63 with part_000:100-107: the suggestion call of
\* suggestionCalls[i] answered.  generateSuggestions catches every failure
\* and returns [], so the catch of App.tsx:58-60 is never entered.
FetchSuggestionsComplete(i, response) ==
    /\ suggestions' = ParseSuggestions(response, now)
    /\ isFetchingSuggestions' = FALSE
    /\ suggestionCalls' = RemoveAt(suggestionCalls, i)
    /\ lastOp' = [op |-> "fetchSuggestionsComplete",
                  ref |-> suggestionCalls[i].content]
    /\ UNCHANGED << revisions, selectedSuggestions, isGeneratingDraft, error,
                    historyPast, historyFuture, lastSaveTimeRef,
                    prevRevisionsLengthRef, now, timer, userCalls,
                    pastStale, futureStale, editCount, ticks,
                    overlapped, lastChangeTime >>

---------------------------------------------------------------------------
(* Apply suggestions: App.tsx:76-96 *)

\* A variant of the start of the merge call without the early return of
\* App.tsx:77.
ApplySuggestionsStartUnguarded ==
    /\ Len(suggestions) > 0
    /\ Len(userCalls) < MaxUserCalls
    /\ Len(revisions) < MaxRevisions
    /\ isGeneratingDraft' = TRUE
    /\ error' = NoError
    /\ userCalls' = Append(userCalls,
            [kind |-> "apply", platform |-> CurrentRevision.platform,
             batchAtStart |-> suggestions])
    /\ lastOp' = [op |-> "applySuggestionsStart", ref |-> NoContent]
    /\ overlapped' = (overlapped \/ Len(userCalls) > 0)
    /\ UNCHANGED << revisions, suggestions, selectedSuggestions,
                    isFetchingSuggestions, historyPast, historyFuture,
                    lastSaveTimeRef, prevRevisionsLengthRef, now, timer,
                    suggestionCalls, pastStale, futureStale, editCount, ticks,
                    lastChangeTime >>

\* App.tsx:77-86 up to the await.  The button that calls it is rendered
\* only for a non-empty batch and disabled for an empty selection
\* (EditorView.tsx:184-188).  The change list the merge call carries is
\* SuggestionsToApply(suggestions, selectedSuggestions) of this state
\* (App.tsx:83-86); the reply is drawn independently of it.
ApplySuggestionsStart ==
    /\ ~(selectedSuggestions = {} \/ ~HasCurrentRevision)
    /\ Len(suggestions) > 0
    /\ Len(userCalls) < MaxUserCalls
    /\ Len(revisions) < MaxRevisions
    /\ isGeneratingDraft' = TRUE
    /\ error' = NoError
    /\ userCalls' = Append(userCalls,
            [kind |-> "apply", platform |-> CurrentRevision.platform,
             batchAtStart |-> suggestions])
    /\ lastOp' = [op |-> "applySuggestionsStart", ref |-> NoContent]
    /\ overlapped' = (overlapped \/ Len(userCalls) > 0)
    /\ UNCHANGED << revisions, suggestions, selectedSuggestions,
                    isFetchingSuggestions, historyPast, historyFuture,
                    lastSaveTimeRef, prevRevisionsLengthRef, now, timer,
                    suggestionCalls, pastStale, futureStale, editCount, ticks,
                    lastChangeTime >>

\* App.tsx:86-89, 93-95 and the effects: the merge call returned `text`
ApplySuggestionsSucceed(i, text) ==
    /\ userCalls[i].kind = "apply"
    /\ Len(revisions) < MaxRevisions
    /\ LET newRevisions ==
               Append(revisions, NewRevision(now, text, userCalls[i].platform))
       IN  /\ revisions' = newRevisions
           /\ HistoryResetEffect(newRevisions, historyPast, historyFuture,
                                 pastStale, futureStale, TRUE)
    /\ DebounceEffect
    /\ selectedSuggestions' = {}
    /\ suggestions' = << >>
    /\ isGeneratingDraft' = FALSE
    /\ userCalls' = RemoveAt(userCalls, i)
    /\ lastOp' = [op |-> "applySuggestionsSucceed", ref |-> NoContent]
    /\ UNCHANGED << isFetchingSuggestions, error, lastSaveTimeRef, now,
                    suggestionCalls, editCount, ticks, overlapped >>

\* A variant of the failure path that clears the batch and the selection
\* as the success path does.
ApplySuggestionsFailClearing(i) ==
    /\ userCalls[i].kind = "apply"
    /\ error' = ApplyErrorMessage
    /\ isGeneratingDraft' = FALSE
    /\ suggestions' = << >>
    /\ selectedSuggestions' = {}
    /\ userCalls' = RemoveAt(userCalls, i)
    /\ lastOp' = [op |-> "applySuggestionsFail", ref |-> NoContent]
    /\ UNCHANGED << revisions, isFetchingSuggestions, historyPast,
                    historyFuture, lastSaveTimeRef, prevRevisionsLengthRef,
                    now, timer, suggestionCalls, pastStale, futureStale,
                    editCount, ticks, overlapped, lastChangeTime >>

\* App.tsx:90-95  the merge call threw
ApplySuggestionsFail(i) ==
    /\ userCalls[i].kind = "apply"
    /\ error' = ApplyErrorMessage
    /\ isGeneratingDraft' = FALSE
    /\ userCalls' = RemoveAt(userCalls, i)
    /\ lastOp' = [op |-> "applySuggestionsFail", ref |-> NoContent]
    /\ UNCHANGED << revisions, suggestions, selectedSuggestions,
                    isFetchingSuggestions, historyPast, historyFuture,
                    lastSaveTimeRef, prevRevisionsLengthRef, now, timer,
                    suggestionCalls, pastStale, futureStale, editCount, ticks,
                    overlapped, lastChangeTime >>

---------------------------------------------------------------------------
(* Selection: App.tsx:98-108 *)

\* A click on the card of a suggestion of the current batch
\* (EditorView.tsx:167-172, 29); the busy overlay covers the cards
\* (App.tsx:153-158).
HandleToggleSuggestion(id) ==
    /\ HasCurrentRevision
    /\ ~isGeneratingDraft
    /\ id \in SuggestionIds
    /\ selectedSuggestions' = Toggled(selectedSuggestions, id)
    /\ lastOp' = [op |-> "toggleSuggestion", ref |-> NoContent]
    /\ UNCHANGED << revisions, suggestions, isGeneratingDraft,
                    isFetchingSuggestions, error, historyPast, historyFuture,
                    lastSaveTimeRef, prevRevisionsLengthRef, now, timer,
                    suggestionCalls, userCalls, pastStale, futureStale, editCount, ticks,
                    overlapped, lastChangeTime >>

---------------------------------------------------------------------------
(* Manual edits and their undo/redo history: App.tsx:110-149 *)

\* App.tsx:110-123 and the effects.  The textarea reports a change only
\* when its value differs from the content it shows (EditorView.tsx:139-140).
HandleContentChange(newContent) ==
    /\ HasCurrentRevision
    /\ newContent # CurrentRevision.content
    /\ editCount < MaxEdits
    /\ editCount' = editCount + 1
    /\ LET snapshot == ShouldSnapshot(now, lastSaveTimeRef)
           past == IF snapshot
                   THEN Append(historyPast, CurrentRevision.content)
                   ELSE historyPast
           future == IF snapshot THEN << >> ELSE historyFuture
           pStale == IF snapshot THEN Append(pastStale, FALSE) ELSE pastStale
           fStale == IF snapshot THEN << >> ELSE futureStale
           newRevisions == WithContent(revisions, newContent)
       IN  /\ snapshot => Len(historyPast) < MaxHistory
           /\ lastSaveTimeRef' = IF snapshot THEN now ELSE lastSaveTimeRef
           /\ revisions' = newRevisions
           /\ HistoryResetEffect(newRevisions, past, future, pStale, fStale, FALSE)
           /\ lastOp' = [op |-> "contentChange",
                         ref |-> IF snapshot THEN "snapshot" ELSE "coalesced"]
    /\ DebounceEffect
    /\ UNCHANGED << suggestions, selectedSuggestions, isGeneratingDraft,
                    isFetchingSuggestions, error, now, suggestionCalls,
                    userCalls, ticks, overlapped >>

\* App.tsx:125-136 and the effects
HandleUndo ==
    /\ ~(Len(historyPast) = 0 \/ ~HasCurrentRevision)
    /\ LET r == UndoResult(CurrentRevision.content, historyPast, historyFuture)
           newRevisions == WithContent(revisions, r.content)
       IN  /\ revisions' = newRevisions
           /\ HistoryResetEffect(newRevisions, r.past, r.future,
                  SubSeq(pastStale, 1, Len(pastStale) - 1),
                  << FALSE >> \o futureStale, FALSE)
    /\ DebounceEffect
    /\ lastOp' = [op |-> "undo", ref |-> CurrentContent]
    /\ UNCHANGED << suggestions, selectedSuggestions, isGeneratingDraft,
                    isFetchingSuggestions, error, lastSaveTimeRef, now,
                    suggestionCalls, userCalls, editCount, ticks,
                    overlapped >>

\* App.tsx:138-149 and the effects
HandleRedo ==
    /\ ~(Len(historyFuture) = 0 \/ ~HasCurrentRevision)
    /\ LET r == RedoResult(CurrentRevision.content, historyPast, historyFuture)
           newRevisions == WithContent(revisions, r.content)
       IN  /\ revisions' = newRevisions
           /\ HistoryResetEffect(newRevisions, r.past, r.future,
                  Append(pastStale, FALSE),
                  SubSeq(futureStale, 2, Len(futureStale)), FALSE)
    /\ DebounceEffect
    /\ lastOp' = [op |-> "redo",
                  ref |-> IF lastOp.op = "undo" THEN lastOp.ref ELSE NoContent]
    /\ UNCHANGED << suggestions, selectedSuggestions, isGeneratingDraft,
                    isFetchingSuggestions, error, lastSaveTimeRef, now,
                    suggestionCalls, userCalls, editCount, ticks,
                    overlapped >>

---------------------------------------------------------------------------
(* The rest of the environment *)

\* App.tsx:163  the error banner's dismiss button
DismissError ==
    /\ error # NoError
    /\ error' = NoError
    /\ lastOp' = [op |-> "dismissError", ref |-> NoContent]
    /\ UNCHANGED << revisions, suggestions, selectedSuggestions,
                    isGeneratingDraft, isFetchingSuggestions, historyPast,
                    historyFuture, lastSaveTimeRef, prevRevisionsLengthRef,
                    now, timer, suggestionCalls, userCalls, pastStale,
                    futureStale, editCount, ticks, overlapped, lastChangeTime >>

\* Time passes: what Date.now() returns grows.  A pending timer fires when
\* it is due: time does not pass beyond its deadline before it has fired or
\* has been cancelled.
Tick(d) ==
    /\ ticks < MaxTicks
    /\ timer = NoTimer \/ now + d <= timer
    /\ now' = now + d
    /\ ticks' = ticks + 1
    /\ UNCHANGED << revisions, suggestions, selectedSuggestions,
                    isGeneratingDraft, isFetchingSuggestions, error,
                    historyPast, historyFuture, lastSaveTimeRef,
                    prevRevisionsLengthRef, timer, suggestionCalls, userCalls,
                    pastStale, futureStale, editCount, lastOp,
                    overlapped, lastChangeTime >>

---------------------------------------------------------------------------
Next ==
    \/ \E p \in PlatformInputs : GenerateDraftStart(p)
    \/ \E i \in 1..Len(userCalls) : \E text \in GenTexts : GenerateDraftSucceed(i, text)
    \/ \E i \in 1..Len(userCalls) : GenerateDraftFail(i)
    \/ DebounceTimerFire
    \/ \E i \in 1..Len(suggestionCalls) : \E r \in SuggestionResponses :
          FetchSuggestionsComplete(i, r)
    \/ ApplySuggestionsStart
    \/ \E i \in 1..Len(userCalls) : \E text \in GenTexts : ApplySuggestionsSucceed(i, text)
    \/ \E i \in 1..Len(userCalls) : ApplySuggestionsFail(i)
    \/ \E id \in SuggestionIds : HandleToggleSuggestion(id)
    \/ \E c \in UserTexts : HandleContentChange(c)
    \/ HandleUndo
    \/ HandleRedo
    \/ DismissError
    \/ \E d \in ClockSteps : Tick(d)

Spec == Init /\ [][Next]_vars

\* The steps of the runs in which the busy overlay (App.tsx:153-158) is
\* respected: no generator request is started by the user while the busy
\* flag is up.  Everything else is as in Next.
SerialNext ==
    \/ ~isGeneratingDraft /\ \E p \in PlatformInputs : GenerateDraftStart(p)
    \/ \E i \in 1..Len(userCalls) : \E text \in GenTexts : GenerateDraftSucceed(i, text)
    \/ \E i \in 1..Len(userCalls) : GenerateDraftFail(i)
    \/ DebounceTimerFire
    \/ \E i \in 1..Len(suggestionCalls) : \E r \in SuggestionResponses :
          FetchSuggestionsComplete(i, r)
    \/ ~isGeneratingDraft /\ ApplySuggestionsStart
    \/ \E i \in 1..Len(userCalls) : \E text \in GenTexts : ApplySuggestionsSucceed(i, text)
    \/ \E i \in 1..Len(userCalls) : ApplySuggestionsFail(i)
    \/ \E id \in SuggestionIds : HandleToggleSuggestion(id)
    \/ \E c \in UserTexts : HandleContentChange(c)
    \/ HandleUndo
    \/ HandleRedo
    \/ DismissError
    \/ \E d \in ClockSteps : Tick(d)

\* Those runs under the scheduling the browser gives: time passes, a timer
\* that is due fires (setTimeout, App.tsx:69-71) and a suggestion request
\* that was sent settles (the awaited promise of App.tsx:56).
FairSpec ==
    /\ Init
    /\ [][SerialNext]_vars
    /\ WF_vars(\E d \in ClockSteps : Tick(d))
    /\ WF_vars(DebounceTimerFire)
    /\ WF_vars(\E i \in 1..Len(suggestionCalls) : \E r \in SuggestionResponses :
                  FetchSuggestionsComplete(i, r))

---------------------------------------------------------------------------
(* Properties of the history stacks *)

\* C1: whenever the revision sequence grows, both history stacks are empty
\* afterwards, and no undo or redo sets the current revision's content to a
\* snapshot taken from a revision that is no longer the current one.
C1_GrowthResetsHistory ==
    [][ /\ Len(revisions') > Len(revisions)
            => historyPast' = << >> /\ historyFuture' = << >>
        /\ HandleUndo => ~pastStale[Len(pastStale)]
        /\ HandleRedo => ~futureStale[1] ]_vars

\* The reset effect has fired for an appended revision after manual edits.
C1_Witness ==
    /\ lastOp.op = "applySuggestionsSucceed"
    /\ Len(revisions) = 2
    /\ editCount > 0
    /\ historyPast = << >>
    /\ historyFuture = << >>

\* The statement of C1 holds of the runs in which no two user calls ever
\* overlapped: it fails only through a draft call that replaces the sequence.
C1_WithoutOverlap ==
    [][ ~overlapped' =>
          ( /\ Len(revisions') > Len(revisions)
                  => historyPast' = << >> /\ historyFuture' = << >>
            /\ HandleUndo => ~pastStale[Len(pastStale)]
            /\ HandleRedo => ~futureStale[1] ) ]_vars

\* C2: every manual content change leaves the future (redo) stack empty,
\* also one that falls inside the throttle window and pushes no snapshot.
C2_EditClearsFuture ==
    lastOp.op = "contentChange" => historyFuture = << >>

\* A manual edit inside the throttle window, made after an undo.
C2_Witness ==
    /\ lastOp = [op |-> "contentChange", ref |-> "coalesced"]
    /\ historyFuture # << >>

\* C3 as stated: a manual edit made at least 1000 ms (1000 ms included)
\* after the previous snapshot push grows the past stack by exactly one, an
\* edit made less than 1000 ms after it leaves the length unchanged.
C3_ThrottleInclusive ==
    [][ \A c \in UserTexts : HandleContentChange(c) =>
            IF now - lastSaveTimeRef >= 1000
            THEN Len(historyPast') = Len(historyPast) + 1
            ELSE Len(historyPast') = Len(historyPast) ]_vars

\* C3 amended: a manual edit made more than 1000 ms after the previous
\* snapshot push grows the past stack by exactly one snapshot, the content
\* before the edit; an edit made at most 1000 ms after it (exactly 1000 ms
\* included) leaves the past stack as it was.
C3_ThrottleStrict ==
    [][ \A c \in UserTexts : HandleContentChange(c) =>
            IF now - lastSaveTimeRef > 1000
            THEN historyPast' = Append(historyPast, CurrentContent)
            ELSE historyPast' = historyPast ]_vars

\* A manual edit made exactly 1000 ms after the previous snapshot push has
\* been coalesced: the clock has not moved since the edit set the timer.
C3_Witness ==
    /\ lastOp = [op |-> "contentChange", ref |-> "coalesced"]
    /\ timer = now + DEBOUNCE_MS
    /\ now - lastSaveTimeRef = 1000
    /\ Len(historyPast) = 1

\* C4: undo followed immediately by redo restores the content the current
\* revision had before the undo.
C4_UndoThenRedoRestores ==
    (lastOp.op = "redo" /\ lastOp.ref # NoContent) => CurrentContent = lastOp.ref

\* A redo right after an undo that had changed the content.
C4_Witness ==
    /\ lastOp.op = "redo"
    /\ lastOp.ref # NoContent
    /\ Len(historyPast) > 0
    /\ historyPast[Len(historyPast)] # lastOp.ref
    /\ CurrentContent = lastOp.ref

---------------------------------------------------------------------------
(* Properties of the suggestion batch *)

\* C5: when a suggestion request completes and its batch replaces the
\* current batch, the selection set is empty afterwards.
C5_BatchReplaceClearsSelection ==
    lastOp.op = "fetchSuggestionsComplete" => selectedSuggestions = {}

\* A batch has been replaced while ids of the previous batch were selected.
C5_Witness ==
    /\ lastOp.op = "fetchSuggestionsComplete"
    /\ selectedSuggestions # {}

\* C6: a batch returned by a suggestion request is installed only if the
\* revision it was computed against is still the current revision with the
\* same content.
C6_InstalledBatchIsFresh ==
    (lastOp.op = "fetchSuggestionsComplete" /\ suggestions # << >>)
        => lastOp.ref = CurrentContent

\* A batch has been installed that was computed against other content.
C6_Witness ==
    /\ lastOp.op = "fetchSuggestionsComplete"
    /\ suggestions # << >>
    /\ lastOp.ref # CurrentContent

---------------------------------------------------------------------------
(* Properties of the user-initiated generator calls *)

\* C7 as stated: when a user-initiated generator call fails, an error is
\* set and the state is exactly what it was when the call was started.  Of
\* the state at a call's start the model keeps the suggestion batch, and the
\* statement is made of the runs in which no two user calls ever overlapped.
C7_FailureKeepsStateOfCallStart ==
    [][ \A i \in 1..Len(userCalls) :
            (~overlapped /\ (GenerateDraftFail(i) \/ ApplySuggestionsFail(i))) =>
                /\ error' # NoError
                /\ suggestions' = userCalls[i].batchAtStart ]_vars

\* C7 amended: when a user-initiated generator call fails, an error is set
\* and the failure leaves the revision sequence, the suggestion batch, the
\* selection set and both history stacks exactly as they were just before
\* the failure was handled.
C7_FailureChangesOnlyError ==
    [][ \A i \in 1..Len(userCalls) :
            (GenerateDraftFail(i) \/ ApplySuggestionsFail(i)) =>
                /\ error' # NoError
                /\ revisions' = revisions
                /\ suggestions' = suggestions
                /\ selectedSuggestions' = selectedSuggestions
                /\ historyPast' = historyPast
                /\ historyFuture' = historyFuture ]_vars

\* A merge call has failed with a batch, a selection and history in place.
C7_Witness ==
    /\ lastOp.op = "applySuggestionsFail"
    /\ error = ApplyErrorMessage
    /\ suggestions # << >>
    /\ selectedSuggestions # {}
    /\ historyPast # << >>

\* C8: when the merge call succeeds returning a text, exactly one revision
\* is appended, with that text and the platform of the revision that was
\* current when the call started, and afterwards the batch, the selection
\* set and both history stacks are empty.
C8_ApplyAppendsAndResets ==
    [][ \A i \in 1..Len(userCalls) : \A text \in GenTexts :
            ApplySuggestionsSucceed(i, text) =>
                /\ Len(revisions') = Len(revisions) + 1
                /\ SubSeq(revisions', 1, Len(revisions)) = revisions
                /\ revisions'[Len(revisions')].content = text
                /\ revisions'[Len(revisions')].platform = userCalls[i].platform
                /\ suggestions' = << >>
                /\ selectedSuggestions' = {}
                /\ historyPast' = << >>
                /\ historyFuture' = << >> ]_vars

\* The statement of C8 holds of the runs in which no two user calls ever
\* overlapped.
C8_WithoutOverlap ==
    [][ \A i \in 1..Len(userCalls) : \A text \in GenTexts :
            (~overlapped /\ ApplySuggestionsSucceed(i, text)) =>
                /\ revisions' = Append(revisions,
                                       NewRevision(now, text, CurrentRevision.platform))
                /\ suggestions' = << >>
                /\ selectedSuggestions' = {}
                /\ historyPast' = << >>
                /\ historyFuture' = << >> ]_vars

\* A merge call has succeeded and the history stacks are not empty.
C8_Witness ==
    /\ lastOp.op = "applySuggestionsSucceed"
    /\ historyPast # << >>

\* C9: if the draft call returns empty text, no revision is created and an
\* error is set; no revision created by a draft call has empty content.
C9_EmptyDraftFails ==
    [][ \A i \in 1..Len(userCalls) :
            GenerateDraftSucceed(i, "") =>
                /\ revisions' = revisions
                /\ error' # NoError ]_vars

\* A draft call has returned empty text and a revision holds it.
C9_Witness ==
    /\ lastOp.op = "generateDraftSucceed"
    /\ Len(revisions) = 1
    /\ revisions[1].content = ""
    /\ error = NoError

\* C10: when the draft call succeeds from an empty revision sequence, the
\* sequence afterwards has exactly one revision, with the generated text
\* and the requested platform, and the batch, the selection set and both
\* history stacks are empty.
C10_DraftCreatesFirstRevision ==
    [][ \A i \in 1..Len(userCalls) : \A text \in GenTexts :
            (Len(revisions) = 0 /\ GenerateDraftSucceed(i, text)) =>
                /\ Len(revisions') = 1
                /\ revisions'[1].content = text
                /\ revisions'[1].platform = userCalls[i].platform
                /\ suggestions' = << >>
                /\ selectedSuggestions' = {}
                /\ historyPast' = << >>
                /\ historyFuture' = << >> ]_vars

\* A draft requested for Twitter has created the first revision.
C10_Witness ==
    /\ lastOp = [op |-> "generateDraftSucceed", ref |-> "created"]
    /\ Len(revisions) = 1
    /\ revisions[1].content = Generated60
    /\ revisions[1].platform = "Twitter"
    /\ prevRevisionsLengthRef = 1

---------------------------------------------------------------------------
(* Properties of the debounced suggestion fetch *)

\* C11: when the debounce timer fires for a current revision whose content
\* is shorter than 50 characters, no suggestion call is issued and the batch
\* and the selection set are unchanged; a call for the current revision is
\* issued when the length is 50 or more.
C11_ThresholdGatesFetch ==
    [][ DebounceTimerFire =>
            IF HasCurrentRevision /\ Len(CurrentContent) >= 50
            THEN suggestionCalls' = Append(suggestionCalls, CurrentRevision)
            ELSE /\ suggestionCalls' = suggestionCalls
                 /\ suggestions' = suggestions
                 /\ selectedSuggestions' = selectedSuggestions
                 /\ isFetchingSuggestions' = isFetchingSuggestions ]_vars

\* The timer has fired on content of 49 characters and issued nothing,
\* after it had fired on content of 50 characters and issued a call.
C11_Witness ==
    /\ lastOp.op = "fetchSuggestionsSkip"
    /\ CurrentContent = Short49
    /\ Len(suggestionCalls) = 1
    /\ suggestionCalls[1].content = Long50

\* C12: a suggestion call is only issued when at least 3000 ms have passed
\* since the most recent change of the current revision, and it targets
\* that revision; every change of the current revision replaces the pending
\* timer by one due 3000 ms later, and a timer that fired is not pending.
C12_DebounceQuietPeriod ==
    [][ /\ Len(suggestionCalls') > Len(suggestionCalls) =>
              /\ now - lastChangeTime >= 3000
              /\ suggestionCalls'[Len(suggestionCalls')] = CurrentRevision
              /\ timer' = NoTimer
        /\ revisions' # revisions => timer' = now + 3000
        /\ (timer' # timer /\ revisions' = revisions) =>
              (timer' = NoTimer \/ timer' = now + 3000) ]_vars

\* A call has been issued 3000 ms after the second of two edits, the
\* second of which cancelled the timer of the first.
C12_Witness ==
    /\ lastOp.op = "fetchSuggestionsStart"
    /\ editCount = 2
    /\ lastChangeTime > lastSaveTimeRef
    /\ now - lastChangeTime = 3000

---------------------------------------------------------------------------
(* Properties of the busy flag *)

\* C13: at most one user-initiated generator call (draft or merge) is in
\* flight at any time, and no such call is started while the busy flag is
\* set.
C13_OneUserCallInFlight ==
    [][ /\ Len(userCalls') <= 1
        /\ Len(userCalls') > Len(userCalls) => ~isGeneratingDraft ]_vars

\* Two user-initiated calls are in flight together.
C13_Witness ==
    /\ Len(userCalls) = 2
    /\ isGeneratingDraft

\* C14: the busy flag is set for the whole time a draft or merge call is in
\* flight and is cleared when that call completes.
C14_BusyWhileInFlight ==
    isGeneratingDraft <=> Len(userCalls) > 0

\* The statement of C14 holds of the runs in which no two user calls ever
\* overlapped.
C14_WithoutOverlap ==
    ~overlapped => (isGeneratingDraft <=> Len(userCalls) > 0)

\* A user call is in flight and the busy flag is not set.
C14_Witness ==
    /\ Len(userCalls) = 1
    /\ ~isGeneratingDraft

---------------------------------------------------------------------------
(* Properties of the selection set *)

\* C15: toggling the same id twice in succession returns the selection set
\* to its original membership: after a toggle of id, toggling id once more
\* gives the set the first toggle started from.
C15_ToggleTwiceRestores ==
    [][ \A id \in SuggestionIds :
            HandleToggleSuggestion(id) =>
                /\ selectedSuggestions' # selectedSuggestions
                /\ Toggled(selectedSuggestions', id) = selectedSuggestions ]_vars

\* A toggle has deselected one of two selected ids.
C15_Witness ==
    /\ lastOp.op = "toggleSuggestion"
    /\ Cardinality(selectedSuggestions) = 1
    /\ Len(suggestions) = 2
    /\ selectedSuggestions \subseteq SuggestionIds

\* C16: the selection set is a subset of the ids of the current batch in
\* every reachable state.
C16_SelectionWithinBatch ==
    selectedSuggestions \subseteq SuggestionIds

\* An id that is in no suggestion of the current batch is selected.
C16_Witness ==
    /\ selectedSuggestions # {}
    /\ selectedSuggestions \cap SuggestionIds = {}

---------------------------------------------------------------------------
(* Properties of the revision sequence *)

\* C17: the revision sequence is append-only: across every step its length
\* never decreases and every revision other than the last keeps its id,
\* content, timestamp and platform (so does the last one when a revision is
\* appended after it); only the last revision's content can change.
C17_AppendOnly ==
    [][ /\ Len(revisions') >= Len(revisions)
        /\ \A k \in 1..Len(revisions) :
              (k < Len(revisions) \/ Len(revisions') > Len(revisions))
                  => revisions'[k] = revisions[k] ]_vars

\* The statement of C17 holds of the runs in which no two user calls ever
\* overlapped.
C17_WithoutOverlap ==
    [][ ~overlapped =>
          ( /\ Len(revisions') >= Len(revisions)
            /\ \A k \in 1..Len(revisions) :
                  (k < Len(revisions) \/ Len(revisions') > Len(revisions))
                      => revisions'[k] = revisions[k] ) ]_vars

\* A draft call has replaced a sequence that already held a revision.
C17_Witness ==
    /\ lastOp = [op |-> "generateDraftSucceed", ref |-> "replaced"]
    /\ Len(revisions) = 1
    /\ prevRevisionsLengthRef = 2

---------------------------------------------------------------------------
(* Frame properties *)

\* C18: no outcome of a background suggestion fetch (an answer, a generator
\* error, an answer that does not parse) sets the error or changes the
\* revision sequence or the history stacks; a failure yields an empty batch.
C18_FetchOutcomeIsSilent ==
    [][ \A i \in 1..Len(suggestionCalls) : \A r \in SuggestionResponses :
            FetchSuggestionsComplete(i, r) =>
                /\ error' = error
                /\ revisions' = revisions
                /\ historyPast' = historyPast
                /\ historyFuture' = historyFuture
                /\ ~r.parsed => suggestions' = << >> ]_vars

\* A fetch has completed with an empty batch, an error of an earlier merge
\* call is still shown and the history stacks are not empty.
C18_Witness ==
    /\ lastOp.op = "fetchSuggestionsComplete"
    /\ suggestions = << >>
    /\ selectedSuggestions # {}
    /\ error = ApplyErrorMessage
    /\ historyPast # << >>

\* C19: a manual edit, an undo or a redo changes neither the length of the
\* revision sequence nor the id, timestamp or platform of the current
\* revision, nor any earlier revision, and does not trigger the history
\* reset; the reset fires only on a step where the length increases.
C19_InPlaceMutationKeepsFrame ==
    [][ LET frame ==
              /\ Len(revisions') = Len(revisions)
              /\ \A k \in 1..Len(revisions) :
                    /\ revisions'[k].id = revisions[k].id
                    /\ revisions'[k].timestamp = revisions[k].timestamp
                    /\ revisions'[k].platform = revisions[k].platform
                    /\ k < Len(revisions) => revisions'[k] = revisions[k]
              /\ prevRevisionsLengthRef' = prevRevisionsLengthRef
        IN  /\ (\E c \in UserTexts : HandleContentChange(c)) =>
                  /\ frame
                  /\ \/ historyPast' # << >>
                     \/ historyPast' = historyPast /\ historyFuture' = historyFuture
            /\ HandleUndo => (frame /\ historyFuture' # << >>)
            /\ HandleRedo => (frame /\ historyPast' # << >>)
            /\ prevRevisionsLengthRef' # prevRevisionsLengthRef =>
                  Len(revisions') > Len(revisions) ]_vars

\* An undo on the second revision has kept the sequence and the stacks.
C19_Witness ==
    /\ lastOp.op = "undo"
    /\ Len(revisions) = 2
    /\ prevRevisionsLengthRef = 2
    /\ historyFuture # << >>
    /\ revisions[1].content # revisions[2].content

\* C20: undo with a non-empty past stack removes the latest snapshot from
\* it, puts the content the revision had just before at the front of the
\* future stack and sets the content to the removed snapshot; with an empty
\* past stack undo takes no step, and with an empty future stack redo takes
\* no step.
C20_UndoPopsLatest ==
    [][ /\ HandleUndo =>
              /\ Len(historyPast) > 0
              /\ historyPast' = SubSeq(historyPast, 1, Len(historyPast) - 1)
              /\ historyFuture' = << CurrentContent >> \o historyFuture
              /\ revisions'[Len(revisions')].content = historyPast[Len(historyPast)]
        /\ Len(historyPast) = 0 => ~ENABLED HandleUndo
        /\ Len(historyFuture) = 0 => ~ENABLED HandleRedo ]_vars

\* An undo has taken the later of two snapshots.
C20_Witness ==
    /\ lastOp.op = "undo"
    /\ Len(historyPast) = 1
    /\ Len(historyFuture) = 1
    /\ historyFuture[1] = lastOp.ref
    /\ CurrentContent # historyPast[1]
    /\ CurrentContent # lastOp.ref

\* C21: applySelected with an empty selection set or without a current
\* revision takes no step at all: no merge call is started, the busy flag
\* and the error stay as they are, and revisions, suggestions and selection
\* are unchanged.
C21_EmptySelectionIsNoOp ==
    (selectedSuggestions = {} \/ ~HasCurrentRevision) =>
        ~ENABLED ApplySuggestionsStart

\* The last selected suggestion has been deselected while a batch is shown
\* and a merge call could otherwise start: only the early return stops it.
C21_Witness ==
    /\ lastOp.op = "toggleSuggestion"
    /\ selectedSuggestions = {}
    /\ HasCurrentRevision
    /\ Len(suggestions) > 0
    /\ Len(userCalls) < MaxUserCalls
    /\ Len(revisions) < MaxRevisions
    /\ ~ENABLED ApplySuggestionsStart

\* The contents a suggestion request is made for (App.tsx:53).
LongTexts == { c \in UserTexts \cup GenTexts : ~BelowThreshold(c) }

C23_MergeCallCarriesChanges ==
    [][ ApplySuggestionsStart =>
          LET changes == SuggestionsToApply(suggestions, selectedSuggestions)
          IN  /\ changes # << >>
              /\ { changes[k].id : k \in 1..Len(changes) } = selectedSuggestions ]_vars

\* A merge call has been started while the selection holds only ids of a
\* superseded batch: its change list is empty.
C23_Witness ==
    /\ lastOp.op = "applySuggestionsStart"
    /\ ~overlapped
    /\ selectedSuggestions # {}
    /\ Len(suggestions) > 0
    /\ SuggestionsToApply(suggestions, selectedSuggestions) = << >>

\* C24: isFetchingSuggestions is true in every state in which at least one
\* suggestion call is in flight, also when two calls overlap and one of
\* them has completed.
C24_FetchingWhileInFlight ==
    Len(suggestionCalls) > 0 => isFetchingSuggestions

\* One of two overlapping suggestion calls has completed; the other is still
\* in flight and the flag is down.
C24_Witness ==
    /\ lastOp.op = "fetchSuggestionsComplete"
    /\ Len(suggestionCalls) = 1
    /\ ~isFetchingSuggestions

\* C25: the manual edit that follows the creation of a revision pushes the
\* revision's generated content onto the past stack, whatever the time of
\* the last snapshot, so that undo can bring it back.  Stated for runs in
\* which user calls never overlap.
C25_FirstEditSnapshotsOriginal ==
    [][ ( /\ ~overlapped
          /\ lastOp.op \in {"generateDraftSucceed", "applySuggestionsSucceed"}
          /\ \E c \in UserTexts : HandleContentChange(c) ) =>
        historyPast' = << CurrentContent >> ]_vars

\* The second revision has been edited within the throttle window of the
\* last snapshot of the first: nothing was pushed and both stacks are empty.
C25_Witness ==
    /\ lastOp = [op |-> "contentChange", ref |-> "coalesced"]
    /\ ~overlapped
    /\ Len(revisions) = 2
    /\ historyPast = << >>
    /\ historyFuture = << >>

====
